---- MODULE Spec2Model ----
(***************************************************************************)
(* The top-level state machine of `gatsby develop`                         *)
(* (packages/gatsby/src/state-machines/develop/index.ts), interpreted with *)
(* the statechart semantics of the machine configuration: the handler of   *)
(* an event is looked up in the active state's `on` first and in the       *)
(* machine's `on` otherwise; a handler of `undefined` forbids the event; a *)
(* transition with a target exits the active state (stopping the service   *)
(* it invoked), applies its actions and enters the target (invoking the    *)
(* target's service with `data` computed from the updated context).        *)
(***************************************************************************)
EXTENDS Naturals, Sequences, FiniteSets, TLC

\* ------------------------------------------------------------------ bounds
MaxBatch == 2
MaxStore == 2
MaxInstances == 3

Mutations == {"A", "B"}
Bodies == {"w1", "w2"}
NoBody == "undefined"

\* ------------------------------------------------------- the configuration
StateNames ==
  {"initializing", "initializingData", "runningPostBootstrap", "runningQueries",
   "recompiling", "startingDevServers", "waiting", "reloadingData",
   "recreatingPages"}

initial == "initializing"

\* invoke.src of each state
InvokeSrc(s) ==
  CASE s = "initializing" -> "initialize"
    [] s = "initializingData" -> "initializeData"
    [] s = "runningPostBootstrap" -> "postBootstrap"
    [] s = "runningQueries" -> "runQueries"
    [] s = "recompiling" -> "recompile"
    [] s = "startingDevServers" -> "startWebpackServer"
    [] s = "waiting" -> "waitForMutations"
    [] s = "reloadingData" -> "reloadData"
    [] s = "recreatingPages" -> "recreatePages"

NoTarget == "none"

\* a transition config: its target (NoTarget when it has none) and the names
\* of its actions; `defined` is FALSE when the `on` has no such key
Transition(target, actions) ==
  [defined |-> TRUE, target |-> target, actions |-> actions]
Absent == [defined |-> FALSE, target |-> NoTarget, actions |-> {}]
\* a key whose value is `undefined`: the event is consumed and nothing happens
ForbiddenTransition == Transition(NoTarget, {})

\* the machine's own `on`
GlobalOn(e) ==
  CASE e = "ADD_NODE_MUTATION" -> Transition(NoTarget, {"addNodeMutation"})
    [] e = "SOURCE_FILE_CHANGED" ->
         Transition(NoTarget, {"markSourceFilesDirty"})
    [] e = "WEBHOOK_RECEIVED" ->
         Transition("reloadingData", {"assignWebhookBody"})
    [] OTHER -> Absent

\* the `on` of state s
StateOn(s, e) ==
  CASE s = "initializing" /\ e \in {"ADD_NODE_MUTATION", "SOURCE_FILE_CHANGED",
                                    "WEBHOOK_RECEIVED"} -> ForbiddenTransition
    [] s = "initializingData" /\ e = "ADD_NODE_MUTATION" ->
         Transition(NoTarget, {"markNodesDirty", "callApi"})
    [] s = "runningQueries" /\ e = "SOURCE_FILE_CHANGED" ->
         Transition(NoTarget, {"forwardTo", "markSourceFilesDirty"})
    [] s = "waiting" /\ e = "ADD_NODE_MUTATION" ->
         Transition(NoTarget, {"forwardTo"})
    [] s = "waiting" /\ e = "SOURCE_FILE_CHANGED" ->
         Transition(NoTarget, {"forwardTo", "markSourceFilesDirty"})
    [] s = "waiting" /\ e = "EXTRACT_QUERIES_NOW" ->
         Transition("runningQueries", {})
    [] s = "reloadingData" /\ e = "ADD_NODE_MUTATION" ->
         Transition(NoTarget, {"markNodesDirty", "callApi"})
    [] s = "reloadingData" /\ e = "SOURCE_FILE_CHANGED" -> ForbiddenTransition
    [] OTHER -> Absent

\* On, were the `on` of initializing left out
On_InitializingNotOverridden(s, e) ==
  IF StateOn(s, e).defined /\ s # "initializing" THEN StateOn(s, e)
  ELSE GlobalOn(e)

\* On, were WEBHOOK_RECEIVED forbidden while a reload is running
On_ReloadingDataIgnoresWebhook(s, e) ==
  IF s = "reloadingData" /\ e = "WEBHOOK_RECEIVED" THEN ForbiddenTransition
  ELSE IF StateOn(s, e).defined THEN StateOn(s, e)
  ELSE GlobalOn(e)

\* On, were the machine-level ADD_NODE_MUTATION to run the mutation
On_GlobalMutationApplied(s, e) ==
  IF StateOn(s, e).defined THEN StateOn(s, e)
  ELSE IF e = "ADD_NODE_MUTATION"
       THEN Transition(NoTarget, {"markNodesDirty", "callApi"})
  ELSE GlobalOn(e)

\* On, were reloadingData to leave ADD_NODE_MUTATION to the machine
On_ReloadingDataQueues(s, e) ==
  IF StateOn(s, e).defined /\ ~(s = "reloadingData" /\ e = "ADD_NODE_MUTATION")
  THEN StateOn(s, e)
  ELSE GlobalOn(e)

\* On, were EXTRACT_QUERIES_NOW handled by the machine's own `on`
On_ExtractEverywhere(s, e) ==
  IF StateOn(s, e).defined THEN StateOn(s, e)
  ELSE IF e = "EXTRACT_QUERIES_NOW" THEN Transition("runningQueries", {})
  ELSE GlobalOn(e)

\* On, were reloadingData to leave SOURCE_FILE_CHANGED to the machine
On_ReloadingDataMarksDirty(s, e) ==
  IF StateOn(s, e).defined /\ ~(s = "reloadingData" /\ e = "SOURCE_FILE_CHANGED")
  THEN StateOn(s, e)
  ELSE GlobalOn(e)

\* On, were the webhook transition to mark the source files dirty as well
On_WebhookMarksDirty(s, e) ==
  IF StateOn(s, e).defined THEN StateOn(s, e)
  ELSE IF e = "WEBHOOK_RECEIVED"
       THEN Transition("reloadingData",
                       {"assignWebhookBody", "markSourceFilesDirty"})
  ELSE GlobalOn(e)

\* the transition selected for event type e in state s: the state's own
\* handler when its `on` has the key, the machine's otherwise
On(s, e) ==
  IF StateOn(s, e).defined THEN StateOn(s, e) ELSE GlobalOn(e)

\* ------------------------------------------------------------------- state
VARIABLES
  state,              \* the active state of the machine
  children,           \* the invoked services that are running
  nextId,             \* the instance number the next invoked service gets
  nodeMutationBatch,  \* context: queued node mutations
  sourceFilesDirty,   \* context
  webhookBody,        \* context
  compiler,           \* context: TRUE when a compiler is present
  workerPool,         \* context: TRUE when store and worker pool are assigned
  nodesDirty,         \* context: set by markNodesDirty
  parentSpan,         \* context: "open" or "finished"
  lastServiceResult,  \* context: data of the last done event assigned
  store,              \* the mutations applied to the store, in order
  dbStateSaved,       \* saveDbState has run
  mutationListener,   \* number of mutation listeners spawned
  webpackListener,    \* number of webpack listeners spawned
  waitingBatch,       \* nodeMutationBatch of the running waiting machine
  forwarded,          \* event types forwarded to the running child
  lastEvent,          \* the event processed last
  stopped,            \* the service instance the last step ended, and how
  idleReceived        \* mutations delivered in `waiting` since the last rebuild

ctxVars ==
  <<nodeMutationBatch, sourceFilesDirty, webhookBody, compiler, workerPool,
    nodesDirty, parentSpan, lastServiceResult>>
machineVars == <<state, children, nextId, waitingBatch, forwarded, dbStateSaved>>
listenerVars == <<mutationListener, webpackListener>>
historyVars == <<idleReceived>>
vars ==
  <<state, children, nextId, nodeMutationBatch, sourceFilesDirty,
    webhookBody, compiler, workerPool, nodesDirty, parentSpan,
    lastServiceResult, store, dbStateSaved, mutationListener, webpackListener,
    waitingBatch, forwarded, lastEvent, stopped, idleReceived>>

\* ------------------------------------------------ the actions of actions.ts
addNodeMutation(batch, payload) == Append(batch, payload)
callApi(st, payload) == Append(st, payload)
assignWebhookBody(payload) == payload
clearWebhookBody == NoBody
markSourceFilesDirty == TRUE
markSourceFilesClean == FALSE
finishParentSpan == "finished"
\* the data of a done event, as assignServiceResult stores it
ServiceResult(src, batch) == [src |-> src, nodeMutationBatch |-> batch]
\* the queued batch once a rebuild begins: drained as a whole
drainBatch(batch) == <<>>
\* the context's nodeMutationBatch once assignServiceResult has assigned the
\* result of the waiting machine, the one service handed the batch: left as
\* it was, replaced by the result's batch, or drained
AssignedBatch(batch, resultBatch) == {batch, resultBatch, drainBatch(batch)}

\* ----------------------------------------------------- the waiting machine
\* its nodeMutationBatch after it is sent event e
WaitingReceive(batch, e, p) ==
  IF e = "ADD_NODE_MUTATION" THEN addNodeMutation(batch, p) ELSE batch

\* ------------------------------------------------------ invoking, stopping
\* the data mapper of the target's invoke, applied to the (updated) context
InvokeData(target, wb, batch) ==
  [webhookBody |-> IF target \in {"initializingData", "reloadingData"}
                   THEN wb ELSE NoBody,
   nodeMutationBatch |-> IF target = "waiting" THEN batch ELSE <<>>]

\* Stopped, were an invoked service to outlive its state
Stopped_None(s, cs) == {}

\* the services that leaving state s stops
Stopped(s, cs) == {c \in cs : c.src = InvokeSrc(s)}

\* Enter, were a transition to the active state itself not to re-enter it
Enter_NoReentry(target, wb, batch) ==
  IF target = state
  THEN UNCHANGED <<state, nextId, children, forwarded, waitingBatch,
                   dbStateSaved>>
  ELSE /\ state' = target
       /\ nextId' = (nextId + 1) % MaxInstances
       /\ children' =
            (children \ Stopped(state, children)) \cup
              {[src |-> InvokeSrc(target), id |-> nextId,
                data |-> InvokeData(target, wb, batch)]}
       /\ forwarded' = {}
       /\ waitingBatch' = InvokeData(target, wb, batch).nodeMutationBatch
       /\ dbStateSaved' = (dbStateSaved \/ target = "waiting")

\* exit the active state and enter target; wb and batch are the context's
\* webhookBody and nodeMutationBatch after the transition's actions
Enter(target, wb, batch) ==
  /\ state' = target
  /\ nextId' = (nextId + 1) % MaxInstances
  /\ children' =
       (children \ Stopped(state, children)) \cup
         {[src |-> InvokeSrc(target), id |-> nextId,
           data |-> InvokeData(target, wb, batch)]}
  /\ forwarded' = {}
  /\ waitingBatch' = InvokeData(target, wb, batch).nodeMutationBatch
  /\ dbStateSaved' = (dbStateSaved \/ target = "waiting")

\* the service invoked by the active state is running (it can complete)
Running == \E c \in children : c.src = InvokeSrc(state)

\* a service instance c that a step has ended, and how: "completed" (its done
\* event was taken), "cancelled" (its state was exited) or "failed"; a step
\* that ends no instance records NoInstance
NoInstance ==
  [src |-> "none", id |-> 0, webhookBody |-> NoBody, how |-> "none"]
Instance(c, how) ==
  [src |-> c.src, id |-> c.id, webhookBody |-> c.data.webhookBody,
   how |-> how]

\* the instance the step has stopped, if it has stopped one
StoppedNow(how) ==
  LET gone == children \ children' IN
  IF gone = {} THEN NoInstance ELSE Instance(CHOOSE c \in gone : TRUE, how)

\* Completing, were the done event of a cancelled instance still delivered
Completing_WithCancelled ==
  {Instance(c, "completed") : c \in {d \in children : d.src = InvokeSrc(state)}}
    \cup (IF stopped.how = "cancelled" /\ stopped.src = InvokeSrc(state)
          THEN {[stopped EXCEPT !.how = "completed"]} ELSE {})

\* the instances whose done event the active state can be sent: a stopped
\* service sends none
Completing ==
  {Instance(c, "completed") : c \in {d \in children : d.src = InvokeSrc(state)}}

\* the done event of an instance of the active state's service is taken
Complete == \E i \in Completing : stopped' = i

Event(type, payload) == [type |-> type, payload |-> payload]
Done(s) == Event("done.invoke", InvokeSrc(s))

Init ==
  /\ state = initial
  /\ children = {[src |-> InvokeSrc(initial), id |-> 0,
                  data |-> InvokeData(initial, NoBody, <<>>)]}
  /\ nextId = 1
  /\ nodeMutationBatch = <<>>
  /\ sourceFilesDirty = FALSE
  /\ webhookBody = NoBody
  /\ compiler = FALSE
  /\ stopped = NoInstance
  /\ workerPool = FALSE
  /\ nodesDirty = FALSE
  /\ parentSpan = "open"
  /\ lastServiceResult = ServiceResult("none", <<>>)
  /\ store = <<>>
  /\ dbStateSaved = FALSE
  /\ mutationListener = 0
  /\ webpackListener = 0
  /\ waitingBatch = <<>>
  /\ forwarded = {}
  /\ lastEvent = Event("xstate.init", NoBody)
  /\ idleReceived = <<>>

\* ------------------------------------------------------- receiving an event
\* the selected transition t of event e with payload p is taken
Take(t, e, p) ==
  /\ nodeMutationBatch' =
       IF "addNodeMutation" \in t.actions
       THEN addNodeMutation(nodeMutationBatch, p) ELSE nodeMutationBatch
  /\ store' = IF "callApi" \in t.actions THEN callApi(store, p) ELSE store
  /\ nodesDirty' = IF "markNodesDirty" \in t.actions THEN TRUE ELSE nodesDirty
  /\ sourceFilesDirty' =
       IF "markSourceFilesDirty" \in t.actions
       THEN markSourceFilesDirty ELSE sourceFilesDirty
  /\ webhookBody' =
       IF "assignWebhookBody" \in t.actions
       THEN assignWebhookBody(p) ELSE webhookBody
  /\ IF t.target # NoTarget
     THEN Enter(t.target, webhookBody', nodeMutationBatch')
     ELSE /\ UNCHANGED <<state, children, nextId, dbStateSaved>>
          /\ forwarded' =
               IF "forwardTo" \in t.actions /\ Running
               THEN forwarded \cup {e} ELSE forwarded
          /\ waitingBatch' =
               IF "forwardTo" \in t.actions /\ Running /\ state = "waiting"
               THEN WaitingReceive(waitingBatch, e, p) ELSE waitingBatch
  /\ stopped' = StoppedNow("cancelled")
  /\ lastEvent' = Event(e, p)
  /\ UNCHANGED <<compiler, workerPool, parentSpan, lastServiceResult>>
  /\ UNCHANGED listenerVars

AddNodeMutation(p) ==
  LET t == On(state, "ADD_NODE_MUTATION") IN
  /\ "addNodeMutation" \in t.actions => Len(nodeMutationBatch) < MaxBatch
  /\ "callApi" \in t.actions => Len(store) < MaxStore
  /\ state = "waiting" =>
       Len(waitingBatch) < MaxBatch /\ Len(idleReceived) < MaxBatch
  /\ idleReceived' =
       IF state = "waiting" THEN Append(idleReceived, p) ELSE idleReceived
  /\ Take(t, "ADD_NODE_MUTATION", p)

SourceFileChanged ==
  /\ Take(On(state, "SOURCE_FILE_CHANGED"), "SOURCE_FILE_CHANGED", NoBody)
  /\ UNCHANGED idleReceived

WebhookReceived(b) ==
  /\ Take(On(state, "WEBHOOK_RECEIVED"), "WEBHOOK_RECEIVED", b)
  /\ UNCHANGED idleReceived

ExtractQueriesNow ==
  /\ Take(On(state, "EXTRACT_QUERIES_NOW"), "EXTRACT_QUERIES_NOW", NoBody)
  /\ UNCHANGED idleReceived

\* ------------------------------------------------------------ initializing
InitializingDone ==
  /\ state = "initializing"
  /\ Complete
  /\ workerPool' = TRUE
  /\ mutationListener' = mutationListener + 1
  /\ Enter("initializingData", webhookBody, nodeMutationBatch)
  /\ lastEvent' = Done(state)
  /\ UNCHANGED <<nodeMutationBatch, sourceFilesDirty, webhookBody, compiler,
                 nodesDirty, parentSpan, lastServiceResult>>
  /\ UNCHANGED <<webpackListener, historyVars, store>>

\* ------------------------------------- initializingData and reloadingData
InitializingDataDone ==
  /\ state = "initializingData"
  /\ Complete
  /\ lastServiceResult' = ServiceResult(InvokeSrc(state), <<>>)
  /\ webhookBody' = clearWebhookBody
  /\ parentSpan' = finishParentSpan
  /\ Enter("runningPostBootstrap", webhookBody', nodeMutationBatch)
  /\ lastEvent' = Done(state)
  /\ UNCHANGED <<nodeMutationBatch, sourceFilesDirty, compiler, workerPool,
                 nodesDirty>>
  /\ UNCHANGED <<listenerVars, historyVars, store>>

\* ReloadingDataDone, were clearWebhookBody left out of its actions
ReloadingDataDone_KeepsWebhookBody ==
  /\ state = "reloadingData"
  /\ Complete
  /\ lastServiceResult' = ServiceResult(InvokeSrc(state), <<>>)
  /\ parentSpan' = finishParentSpan
  /\ Enter("runningQueries", webhookBody, nodeMutationBatch)
  /\ lastEvent' = Done(state)
  /\ UNCHANGED <<nodeMutationBatch, sourceFilesDirty, webhookBody, compiler,
                 workerPool, nodesDirty>>
  /\ UNCHANGED <<listenerVars, historyVars, store>>

ReloadingDataDone ==
  /\ state = "reloadingData"
  /\ Complete
  /\ lastServiceResult' = ServiceResult(InvokeSrc(state), <<>>)
  /\ webhookBody' = clearWebhookBody
  /\ parentSpan' = finishParentSpan
  /\ Enter("runningQueries", webhookBody', nodeMutationBatch)
  /\ lastEvent' = Done(state)
  /\ UNCHANGED <<nodeMutationBatch, sourceFilesDirty, compiler, workerPool,
                 nodesDirty>>
  /\ UNCHANGED <<listenerVars, historyVars, store>>

\* ---------------------------------------------------- runningPostBootstrap
RunningPostBootstrapDone ==
  /\ state = "runningPostBootstrap"
  /\ Complete
  /\ Enter("runningQueries", webhookBody, nodeMutationBatch)
  /\ lastEvent' = Done(state)
  /\ UNCHANGED <<ctxVars, listenerVars, historyVars, store>>

\* ---------------------------------------------------------- runningQueries
\* RunningQueriesTarget, were the first two guards swapped
RunningQueriesTarget_DirtyFirst(comp, dirty) ==
  IF dirty THEN "recompiling"
  ELSE IF ~comp THEN "startingDevServers"
  ELSE "waiting"

\* RunningQueriesTarget, were the servers started after every query run
RunningQueriesTarget_AlwaysStartServers(comp, dirty) == "startingDevServers"

\* RunningQueriesTarget, were dirty source files to lead to recreatingPages
RunningQueriesTarget_DirtyRecreatesPages(comp, dirty) ==
  IF ~comp THEN "startingDevServers"
  ELSE IF dirty THEN "recreatingPages"
  ELSE "waiting"

\* onDone: the first transition whose cond holds
RunningQueriesTarget(comp, dirty) ==
  IF ~comp THEN "startingDevServers"
  ELSE IF dirty THEN "recompiling"
  ELSE "waiting"

RunningQueriesDone ==
  /\ state = "runningQueries"
  /\ Complete
  /\ Enter(RunningQueriesTarget(compiler, sourceFilesDirty), webhookBody,
           nodeMutationBatch)
  /\ lastEvent' = Done(state)
  /\ UNCHANGED <<ctxVars, listenerVars, historyVars, store>>

\* ------------------------------------------------------------- recompiling
\* RecompilingDone, were markSourceFilesClean left out of its actions
RecompilingDone_KeepsDirty ==
  /\ state = "recompiling"
  /\ Complete
  /\ Enter("waiting", webhookBody, nodeMutationBatch)
  /\ lastEvent' = Done(state)
  /\ UNCHANGED <<ctxVars, listenerVars, historyVars, store>>

RecompilingDone ==
  /\ state = "recompiling"
  /\ Complete
  /\ sourceFilesDirty' = markSourceFilesClean
  /\ Enter("waiting", webhookBody, nodeMutationBatch)
  /\ lastEvent' = Done(state)
  /\ UNCHANGED <<nodeMutationBatch, webhookBody, compiler, workerPool,
                 nodesDirty, parentSpan, lastServiceResult>>
  /\ UNCHANGED <<listenerVars, historyVars, store>>

\* ------------------------------------------------------ startingDevServers
\* assignServers: the compiler and the servers of the done event's data
AssignServers(comp) == TRUE

\* StartingDevServersDone, were assignServers left out of its actions
StartingDevServersDone_NoAssignServers ==
  /\ state = "startingDevServers"
  /\ Complete
  /\ webpackListener' = webpackListener + 1
  /\ sourceFilesDirty' = markSourceFilesClean
  /\ Enter("waiting", webhookBody, nodeMutationBatch)
  /\ lastEvent' = Done(state)
  /\ UNCHANGED <<nodeMutationBatch, webhookBody, compiler, workerPool,
                 nodesDirty, parentSpan, lastServiceResult>>
  /\ UNCHANGED <<mutationListener, historyVars, store>>

StartingDevServersDone ==
  /\ state = "startingDevServers"
  /\ Complete
  /\ compiler' = AssignServers(compiler)
  /\ webpackListener' = webpackListener + 1
  /\ sourceFilesDirty' = markSourceFilesClean
  /\ Enter("waiting", webhookBody, nodeMutationBatch)
  /\ lastEvent' = Done(state)
  /\ UNCHANGED <<nodeMutationBatch, webhookBody, workerPool, nodesDirty,
                 parentSpan, lastServiceResult>>
  /\ UNCHANGED <<mutationListener, historyVars, store>>

\* ----------------------------------------------------------------- waiting
\* onDone: { actions: assignServiceResult, target: recreatingPages }
WaitingDone ==
  /\ state = "waiting"
  /\ Complete
  /\ lastServiceResult' = ServiceResult(InvokeSrc(state), waitingBatch)
  /\ nodeMutationBatch' \in AssignedBatch(nodeMutationBatch, waitingBatch)
  /\ idleReceived' = <<>>
  /\ Enter("recreatingPages", webhookBody, nodeMutationBatch')
  /\ lastEvent' = Done(state)
  /\ UNCHANGED <<sourceFilesDirty, webhookBody, compiler, workerPool,
                 nodesDirty, parentSpan>>
  /\ UNCHANGED <<listenerVars, store>>

\* --------------------------------------------------------- recreatingPages
RecreatingPagesDone ==
  /\ state = "recreatingPages"
  /\ Complete
  /\ lastServiceResult' = ServiceResult(InvokeSrc(state), <<>>)
  /\ Enter("runningQueries", webhookBody, nodeMutationBatch)
  /\ lastEvent' = Done(state)
  /\ UNCHANGED <<nodeMutationBatch, sourceFilesDirty, webhookBody, compiler,
                 workerPool, nodesDirty, parentSpan>>
  /\ UNCHANGED <<listenerVars, historyVars, store>>

\* ------------------------------------------------------- a failing service
\* the service invoked by the active state fails: no invoke has an onError,
\* so its error event selects no transition and only the service is gone
ChildFailure ==
  /\ \E c \in children :
       /\ c.src = InvokeSrc(state)
       /\ children' = children \ {c}
       /\ stopped' = Instance(c, "failed")
  /\ waitingBatch' = <<>>
  /\ forwarded' = {}
  /\ lastEvent' = Event("error.platform", InvokeSrc(state))
  /\ UNCHANGED <<state, nextId, dbStateSaved>>
  /\ UNCHANGED <<ctxVars, listenerVars, historyVars, store>>

\* the steps in which no service fails
NextNoFailure ==
  \/ \E p \in Mutations : AddNodeMutation(p)
  \/ SourceFileChanged
  \/ \E b \in Bodies : WebhookReceived(b)
  \/ ExtractQueriesNow
  \/ InitializingDone
  \/ InitializingDataDone
  \/ RunningPostBootstrapDone
  \/ RunningQueriesDone
  \/ RecompilingDone
  \/ StartingDevServersDone
  \/ WaitingDone
  \/ ReloadingDataDone
  \/ RecreatingPagesDone

Next ==
  \/ \E p \in Mutations : AddNodeMutation(p)
  \/ SourceFileChanged
  \/ \E b \in Bodies : WebhookReceived(b)
  \/ ExtractQueriesNow
  \/ InitializingDone
  \/ InitializingDataDone
  \/ RunningPostBootstrapDone
  \/ RunningQueriesDone
  \/ RecompilingDone
  \/ StartingDevServersDone
  \/ WaitingDone
  \/ ReloadingDataDone
  \/ RecreatingPagesDone
  \/ ChildFailure

Spec == Init /\ [][Next]_vars

\* every service but the waiting machine, which completes only once a
\* mutation has reached it, completes if it is left running
PhaseCompletion ==
  /\ WF_vars(InitializingDone)
  /\ WF_vars(InitializingDataDone)
  /\ WF_vars(RunningPostBootstrapDone)
  /\ WF_vars(RunningQueriesDone)
  /\ WF_vars(RecompilingDone)
  /\ WF_vars(StartingDevServersDone)
  /\ WF_vars(ReloadingDataDone)
  /\ WF_vars(RecreatingPagesDone)

\* the executions in which no service fails and every phase completes
LiveSpec == Init /\ [][NextNoFailure]_vars /\ PhaseCompletion

\* ------------------------------------------------------------------ claims
\* every variable but the two that record the last step
varsButLastEvent ==
  <<state, children, nextId, nodeMutationBatch, sourceFilesDirty, webhookBody,
    compiler, workerPool, nodesDirty, parentSpan, lastServiceResult, store,
    dbStateSaved, mutationListener, webpackListener, waitingBatch, forwarded,
    idleReceived>>

\* s is the tail of t
IsSuffix(s, t) ==
  /\ Len(s) <= Len(t)
  /\ \A i \in 1..Len(s) : s[i] = t[Len(t) - Len(s) + i]

\* C1: in every reachable state one state of the nine is active, at most one
\* invoked service is running, it is the one the active state invoked (the
\* instance invoked last), and the waiting machine runs only in `waiting`.
C1_OneStateOneChild ==
  /\ state \in StateNames
  /\ Cardinality(children) <= 1
  /\ \A c \in children :
       /\ c.src = InvokeSrc(state)
       /\ c.id = (nextId + MaxInstances - 1) % MaxInstances
       /\ c.src = "waitForMutations" => state = "waiting"

\* C1 witness: a webhook has pre-empted a state after `waiting` was visited,
\* and the only running service is the reload.
C1_Witness ==
  /\ lastEvent.type = "WEBHOOK_RECEIVED"
  /\ state = "reloadingData"
  /\ dbStateSaved
  /\ \E c \in children : c.src = "reloadData"

\* C2 as stated: a WEBHOOK_RECEIVED event in any state, `initializing`
\* included, moves the machine to reloadingData and stops the service that
\* was running.
C2_WebhookInAnyState ==
  [][lastEvent'.type = "WEBHOOK_RECEIVED" =>
       state' = "reloadingData" /\ children \cap children' = {}]_vars

\* C2 amended: a WEBHOOK_RECEIVED event in any state other than
\* `initializing` moves the machine to reloadingData, stores the payload in
\* webhookBody, stops the service that was running and invokes reloadData;
\* in `initializing` the event is dropped.
C2_WebhookOutsideInitializing ==
  [][/\ (lastEvent'.type = "WEBHOOK_RECEIVED" /\ state # "initializing") =>
          /\ state' = "reloadingData"
          /\ webhookBody' = lastEvent'.payload
          /\ children \cap children' = {}
          /\ \E c \in children' : c.src = "reloadData"
     /\ (lastEvent'.type = "WEBHOOK_RECEIVED" /\ state = "initializing") =>
          UNCHANGED <<state, children, webhookBody>>]_vars

\* C2 witness: a webhook with payload w2 was taken and the reload child runs.
C2_Witness ==
  /\ lastEvent = Event("WEBHOOK_RECEIVED", "w2")
  /\ state = "reloadingData"
  /\ webhookBody = "w2"
  /\ \A c \in children : c.src = "reloadData"

\* C3: when the waiting machine completes (the next entry into
\* recreatingPages), the mutations delivered in `waiting` since the last
\* rebuild are all in the batch it hands over, in receipt order, after any
\* mutations that were queued before.
C3_IdleMutationsReachRebuild ==
  [][state = "waiting" /\ lastEvent' = Done("waiting") =>
       IsSuffix(idleReceived, lastServiceResult'.nodeMutationBatch)]_vars

\* C4: when runQueries completes the target is startingDevServers if there
\* is no compiler, else recompiling if sourceFilesDirty, else waiting.
C4_RunningQueriesGuards ==
  [][state = "runningQueries" /\ lastEvent' = Done("runningQueries") =>
       /\ ~compiler => state' = "startingDevServers"
       /\ compiler /\ sourceFilesDirty => state' = "recompiling"
       /\ compiler /\ ~sourceFilesDirty => state' = "waiting"]_vars

\* C4 witness: runQueries completed with no compiler and dirty source files.
C4_Witness ==
  /\ lastEvent = Done("runningQueries")
  /\ state = "startingDevServers"
  /\ sourceFilesDirty
  /\ ~compiler

ClaimedQueueingStates ==
  {"initializing", "runningPostBootstrap", "runningQueries", "recompiling",
   "startingDevServers", "recreatingPages"}

\* C5 as stated: in the six states other than waiting, initializingData and
\* reloadingData, an ADD_NODE_MUTATION event is appended to
\* nodeMutationBatch and is not applied to the store.
C5_QueuedInSixStates ==
  [][lastEvent'.type = "ADD_NODE_MUTATION" /\ state \in ClaimedQueueingStates =>
       /\ nodeMutationBatch' = Append(nodeMutationBatch, lastEvent'.payload)
       /\ store' = store]_vars

\* C5 amended: in runningPostBootstrap, runningQueries, recompiling,
\* startingDevServers and recreatingPages an ADD_NODE_MUTATION event is
\* appended to the end of nodeMutationBatch and is not applied to the store;
\* in `initializing` it is neither queued nor applied.
C5_QueuedInFiveStates ==
  [][/\ (/\ lastEvent'.type = "ADD_NODE_MUTATION"
         /\ state \in ClaimedQueueingStates \ {"initializing"}) =>
          /\ nodeMutationBatch' = Append(nodeMutationBatch, lastEvent'.payload)
          /\ store' = store
     /\ (lastEvent'.type = "ADD_NODE_MUTATION" /\ state = "initializing") =>
          UNCHANGED <<nodeMutationBatch, store>>]_vars

\* C5 witness: two mutations are queued in order, the last one in recompiling.
C5_Witness ==
  /\ state = "recompiling"
  /\ lastEvent = Event("ADD_NODE_MUTATION", "B")
  /\ nodeMutationBatch = <<"A", "B">>
  /\ store = <<>>

\* C6: in `initializing` an ADD_NODE_MUTATION, SOURCE_FILE_CHANGED or
\* WEBHOOK_RECEIVED event changes nothing: the state, the running service
\* and the whole context stay as they are.
C6_InitializingDropsEvents ==
  [][(/\ state = "initializing"
      /\ lastEvent'.type \in {"ADD_NODE_MUTATION", "SOURCE_FILE_CHANGED",
                              "WEBHOOK_RECEIVED"}) =>
       UNCHANGED varsButLastEvent]_vars

\* C6 witness: a mutation was received in `initializing`.
C6_Witness ==
  /\ state = "initializing"
  /\ lastEvent.type = "ADD_NODE_MUTATION"
  /\ \E c \in children : c.src = "initialize"

\* C7: in initializingData and reloadingData an ADD_NODE_MUTATION event is
\* applied to the store at once, after the ones applied before, and is not
\* queued; the state and the running service are unchanged.
C7_AppliedImmediately ==
  [][(/\ lastEvent'.type = "ADD_NODE_MUTATION"
      /\ state \in {"initializingData", "reloadingData"}) =>
       /\ store' = Append(store, lastEvent'.payload)
       /\ nodeMutationBatch' = nodeMutationBatch
       /\ state' = state
       /\ children' = children]_vars

\* C7 witness: B then A were applied, the last one in reloadingData.
C7_Witness ==
  /\ state = "reloadingData"
  /\ lastEvent = Event("ADD_NODE_MUTATION", "A")
  /\ store = <<"B", "A">>

\* C8: compiler is absent initially, is present once startWebpackServer has
\* completed, and changes in no other step.
C8_CompilerMonotonic ==
  /\ compiler = FALSE
  /\ [][/\ (compiler' # compiler) =>
             (/\ ~compiler
              /\ state = "startingDevServers"
              /\ lastEvent' = Done("startingDevServers"))
        /\ (state = "startingDevServers"
             /\ lastEvent' = Done("startingDevServers")) => compiler']_vars

\* C8 witness: with the compiler present, a webhook has pre-empted a state
\* and the reload has completed.
C8_Witness ==
  /\ compiler
  /\ lastEvent = Done("reloadingData")

\* C9: webhookBody holds a payload only in reloadingData, and it is empty
\* when reloadData or initializeData has completed.
C9_WebhookBodyOnlyWhileReloading ==
  /\ webhookBody # NoBody => state = "reloadingData"
  /\ lastEvent \in {Done("reloadingData"), Done("initializingData")} =>
       webhookBody = NoBody

\* C9 witness: the reload that followed a webhook has completed.
C9_Witness ==
  /\ lastEvent = Done("reloadingData")
  /\ state = "runningQueries"
  /\ webhookBody = NoBody

\* the waiting machine was seeded with an empty batch and was sent A then B
AfterAThenB ==
  /\ state = "waiting"
  /\ nodeMutationBatch = <<>>
  /\ idleReceived = <<"A", "B">>
  /\ waitingBatch = <<"A", "B">>

\* C10: in `waiting` after mutation(A), mutation(B), an
\* EXTRACT_QUERIES_NOW event leads to recreatingPages with the batch [A, B].
C10_ExtractLeadsToRecreatingPages ==
  [][AfterAThenB /\ lastEvent'.type = "EXTRACT_QUERIES_NOW" =>
       /\ state' = "recreatingPages"
       /\ lastServiceResult'.nodeMutationBatch = <<"A", "B">>]_vars

\* C13: once the service of a state has failed, that service is not invoked
\* again and no other state is entered, whatever events arrive.
C13_FailureIsFinal ==
  [][children = {} => (children' = {} /\ state' = state)]_vars

\* s is the head of t
IsPrefix(s, t) ==
  /\ Len(s) <= Len(t)
  /\ \A i \in 1..Len(s) : s[i] = t[i]

BootstrapStates ==
  {"initializing", "initializingData", "runningPostBootstrap", "runningQueries"}

\* the state that follows s when its service completes during the bootstrap
BootstrapSuccessor(s) ==
  CASE s = "initializing" -> "initializingData"
    [] s = "initializingData" -> "runningPostBootstrap"
    [] s = "runningPostBootstrap" -> "runningQueries"
    [] s = "runningQueries" -> "startingDevServers"

\* C11: while there is no compiler and no webhook pre-empts, the machine
\* leaves initializing, initializingData, runningPostBootstrap and
\* runningQueries only by the completion of their service and only for the
\* next state of that order, startingDevServers after runningQueries,
\* whatever sourceFilesDirty is; without a compiler it is never in
\* recompiling or waiting.
C11_BootstrapOrder ==
  /\ state = "initializing"
  /\ [][/\ (/\ ~compiler
            /\ state \in BootstrapStates
            /\ lastEvent'.type # "WEBHOOK_RECEIVED") =>
              \/ state' = state /\ lastEvent'.type # "done.invoke"
              \/ /\ lastEvent' = Done(state)
                 /\ state' = BootstrapSuccessor(state)
        /\ ~compiler => state' \notin {"recompiling", "waiting"}
                        \/ lastEvent' = Done("startingDevServers")]_vars

\* C11 witness: the four bootstrap services completed in turn, none was
\* pre-empted, a source file changed on the way, and the servers start.
C11_Witness ==
  /\ state = "startingDevServers"
  /\ lastEvent = Done("runningQueries")
  /\ lastServiceResult.src = "initializeData"
  /\ sourceFilesDirty
  /\ ~compiler
  /\ mutationListener = 1

\* C12: the mutation listener and the webpack listener are each spawned at
\* most once: the first exactly when initializing has completed, the second
\* exactly when startWebpackServer has completed.
C12_ListenersSpawnedOnce ==
  /\ mutationListener = (IF state = "initializing" THEN 0 ELSE 1)
  /\ webpackListener = (IF compiler THEN 1 ELSE 0)

\* C12 witness: the servers were started after a webhook had forced a
\* reload, and the machine has rebuilt since.
C12_Witness ==
  /\ webpackListener = 1
  /\ mutationListener = 1
  /\ state = "recreatingPages"
  /\ lastServiceResult.src = "waitForMutations"

\* C14: an EXTRACT_QUERIES_NOW event in a state other than waiting changes
\* neither the state, nor the running service, nor the context.
C14_ExtractIgnoredOutsideWaiting ==
  [][(state # "waiting" /\ lastEvent'.type = "EXTRACT_QUERIES_NOW") =>
       UNCHANGED varsButLastEvent]_vars

\* C14 witness: EXTRACT_QUERIES_NOW was received during a recompilation.
C14_Witness ==
  /\ state = "recompiling"
  /\ lastEvent.type = "EXTRACT_QUERIES_NOW"
  /\ \E c \in children : c.src = "recompile"

\* C15: a SOURCE_FILE_CHANGED event in reloadingData leaves sourceFilesDirty
\* as it was, is forwarded to no service, and leaves the state and the
\* reload service as they were.
C15_ReloadingDropsFileChange ==
  [][(state = "reloadingData" /\ lastEvent'.type = "SOURCE_FILE_CHANGED") =>
       /\ sourceFilesDirty' = sourceFilesDirty
       /\ forwarded' = forwarded
       /\ state' = state
       /\ children' = children]_vars

\* C15 witness: a file change was received in reloadingData with clean
\* source files and the reload still running.
C15_Witness ==
  /\ state = "reloadingData"
  /\ lastEvent.type = "SOURCE_FILE_CHANGED"
  /\ ~sourceFilesDirty
  /\ forwarded = {}
  /\ \E c \in children : c.src = "reloadData"

\* C16: whenever waiting is entered, sourceFilesDirty is false.
C16_CleanOnEnteringWaiting ==
  [][(state # "waiting" /\ state' = "waiting") => ~sourceFilesDirty']_vars

\* C16 witness: waiting was entered from recompiling.
C16_Witness ==
  /\ state = "waiting"
  /\ lastEvent = Done("recompiling")
  /\ ~sourceFilesDirty

\* C17: waiting, recompiling and recreatingPages are active only with a
\* compiler present, that is after startWebpackServer has completed.
C17_IdleOnlyWithCompiler ==
  state \in {"waiting", "recompiling", "recreatingPages"} =>
    compiler /\ webpackListener = 1

\* C17 witness: a recompilation runs after a reload.
C17_Witness ==
  /\ state = "recompiling"
  /\ compiler
  /\ lastServiceResult.src = "reloadData"

\* C18: a WEBHOOK_RECEIVED event in reloadingData cancels the running
\* reload, stores the new payload and invokes a new reload, another instance,
\* whose data carries it; the done event that is taken is always that of an
\* instance running in the active state, never that of the cancelled one.
C18_WebhookRestartsReload ==
  [][/\ (state = "reloadingData" /\ lastEvent'.type = "WEBHOOK_RECEIVED") =>
          /\ state' = "reloadingData"
          /\ webhookBody' = lastEvent'.payload
          /\ children \cap children' = {}
          /\ \A c \in children : stopped' = Instance(c, "cancelled")
          /\ \A c \in children : \A d \in children' : d.id # c.id
          /\ \E d \in children' :
               /\ d.src = "reloadData"
               /\ d.data.webhookBody = lastEvent'.payload
               /\ children' = {d}
     /\ lastEvent'.type = "done.invoke" =>
          /\ \E c \in children :
               /\ c.src = InvokeSrc(state)
               /\ c.src = lastEvent'.payload
               /\ stopped' = Instance(c, "completed")
               /\ c \notin children'
          /\ stopped.how = "cancelled" =>
               ~(stopped'.src = stopped.src /\ stopped'.id = stopped.id)
    ]_vars

\* C18 witness: the webhook w2 arrived while the reload of the webhook w1 was
\* running: that reload is cancelled and the one running carries w2.
C18_Witness ==
  /\ state = "reloadingData"
  /\ lastEvent = Event("WEBHOOK_RECEIVED", "w2")
  /\ webhookBody = "w2"
  /\ stopped.src = "reloadData"
  /\ stopped.how = "cancelled"
  /\ stopped.webhookBody = "w1"
  /\ \E c \in children :
       /\ c.src = "reloadData"
       /\ c.data.webhookBody = "w2"
       /\ c.id # stopped.id
       /\ children = {c}

\* C20: a WEBHOOK_RECEIVED event leaves nodeMutationBatch, sourceFilesDirty
\* and compiler as they were; nodeMutationBatch only grows at its end until
\* the waiting machine completes, and the waiting machine is seeded with it.
C20_WebhookKeepsQueuedMutations ==
  [][/\ lastEvent'.type = "WEBHOOK_RECEIVED" =>
          UNCHANGED <<nodeMutationBatch, sourceFilesDirty, compiler>>
     /\ lastEvent' # Done("waiting") =>
          IsPrefix(nodeMutationBatch, nodeMutationBatch')
     /\ (state # "waiting" /\ state' = "waiting") =>
          /\ waitingBatch' = nodeMutationBatch
          /\ \E c \in children' : c.data.nodeMutationBatch = nodeMutationBatch
    ]_vars

\* C20 witness: A and B were queued, a reload has completed since, and the
\* waiting machine is seeded with both.
C20_Witness ==
  /\ state = "waiting"
  /\ lastEvent.type = "done.invoke"
  /\ lastServiceResult.src = "reloadData"
  /\ nodeMutationBatch = <<"A", "B">>
  /\ waitingBatch = <<"A", "B">>

\* from some point on no WEBHOOK_RECEIVED event arrives
FinitelyManyWebhooks ==
  <>[][lastEvent'.type # "WEBHOOK_RECEIVED"]_vars

\* C19: when no service fails, every phase service that is left running
\* completes and only finitely many WEBHOOK_RECEIVED events arrive, the
\* machine is in waiting again and again, from wherever it is.
C19_EventuallyWaiting ==
  FinitelyManyWebhooks => []<>(state = "waiting")

\* C19 witness: waiting is reached from the start of the servers after a
\* webhook had forced a reload before they were up.
C19_Witness ==
  /\ state = "waiting"
  /\ lastEvent = Done("startingDevServers")
  /\ lastServiceResult.src = "reloadData"
  /\ webhookBody = NoBody

====
